---- MODULE Spec2Model ----
\* n-d-chess: the finite-board attack calculators of src/src/utils/chess-tests.js
\* (lines 775-1107: calculate{Knight,Rook,Bishop,Queen,King,Pawn}Attacks,
\* combinatorial, factorial, getPieceInfo), modelled as pure operators that
\* are applied, one action per call, to inputs drawn in Init and in the
\* actions: the six calculators, getPieceInfo and the calculate closure it
\* returns, combinatorial and factorial.  SpecCalls interleaves the calls of
\* two callers under configurations of their own; SpecApp is the settings
\* panel (the AttackTable component and App.js): its three event handlers
\* and the effect that recomputes the table.  The earlier side-length-8
\* calculators of src/src/utils/calculator.js are modelled beside the
\* finite-board ones.
\*
\* A JavaScript number is modelled as an exact fraction <<num, den>> in lowest
\* terms with den >= 0 (den = 0 is +-Infinity, <<0, 0>> is NaN).  The inputs
\* (dimension, sideLength) are integers, and arithmetic that stays within the
\* integers (+, -, *, %, Math.min on integers) is the native arithmetic; `/`
\* and Math.pow are the operations that can leave the integers and return
\* fractions.  Every magnitude reached within the bounds below is far under
\* 2^53, so the IEEE-754 doubles of the program are exact on the integers.
EXTENDS Integers, FiniteSets, Sequences, TLC

VARIABLES dimension, diagonalMode, knightMode, sideLength, called, result,
          pieceName, nargs, info, argN, argK, digits,
          held, settings, inputText, attackCounts

vars == <<dimension, diagonalMode, knightMode, sideLength, called, result,
          pieceName, nargs, info, argN, argK, digits,
          held, settings, inputText, attackCounts>>

\* ---------------------------------------------------------------- bounds
MaxDim == 10
MaxLen == 12
BoardMaxDim == 3
BoardMaxLen == 7
MaxNegK == 3
MaxFactorial == 20
MaxCallLen == 4
MaxCallDim == 3
MaxTextLen == 2

DiagonalModes == {"Classic", "Hyper"}
KnightModes == {"Standard", "Alternative"}

\* ------------------------------------------------- JavaScript numbers
Abs(x) == IF x < 0 THEN -x ELSE x

Sign(x) == IF x < 0 THEN -1 ELSE IF x > 0 THEN 1 ELSE 0

RECURSIVE GCD(_, _)
GCD(a, b) == IF b = 0 THEN a ELSE GCD(b, a % b)

\* the fraction n/d in lowest terms, the sign carried by the numerator
Norm(n, d) ==
  IF d = 0 THEN <<Sign(n), 0>>
  ELSE LET g == GCD(Abs(n), Abs(d))
       IN  <<(Sign(d) * n) \div g, Abs(d) \div g>>

\* an integer as a JavaScript number
Num(i) == <<i, 1>>

Add(x, y) ==
  IF x[2] = 0 /\ y[2] = 0
    THEN (IF x[1] = y[1] THEN x ELSE <<0, 0>>)
    ELSE Norm(x[1] * y[2] + y[1] * x[2], x[2] * y[2])

Neg(x) == <<-x[1], x[2]>>

Sub(x, y) == Add(x, Neg(y))

Mul(x, y) == Norm(x[1] * y[1], x[2] * y[2])

Div(x, y) == Norm(x[1] * y[2], x[2] * y[1])

RECURSIVE IntPow(_, _)
IntPow(b, e) == IF e <= 0 THEN 1 ELSE b * IntPow(b, e - 1)

\* Math.pow on an integer base and an integer exponent: a negative exponent
\* gives the reciprocal (Infinity for base 0), and x^0 is 1 for every x.
Math_pow(base, exponent) ==
  IF exponent >= 0
    THEN Num(IntPow(base, exponent))
    ELSE Div(Num(1), Num(IntPow(base, -exponent)))

Math_min(a, b) == IF a < b THEN a ELSE b

\* Math.round: the nearest integer, halves towards +Infinity
Math_round(x) ==
  IF x[2] = 0 THEN x ELSE Num((2 * x[1] + x[2]) \div (2 * x[2]))

\* ------------------------------------------------- combinatorics kernel
RECURSIVE factorial(_)
factorial(n) == IF n <= 1 THEN 1 ELSE n * factorial(n - 1)

combinatorial(n, k) ==
  IF k > n THEN Num(0)
  ELSE Div(Num(factorial(n)), Num(factorial(k) * factorial(n - k)))

\* ------------------------------------------------------- the calculators
\* the 'Standard' branch: 2 along one axis, 1 along another
KnightStandard_BoundaryAtSix(d, l) ==
  IF l < 3 THEN Num(0)
  ELSE IF l <= 5 THEN Num(d * (d - 1))
  ELSE Num(4 * d * (d - 1))

\* the 'Standard' branch with its two board-size results exchanged
KnightStandard_BranchesSwapped(d, l) ==
  IF l < 3 THEN Num(0)
  ELSE IF l < 5 THEN Num(4 * d * (d - 1))
  ELSE Num(d * (d - 1))

KnightStandard(d, l) ==
  IF l < 3 THEN Num(0)
  ELSE IF l < 5 THEN Num(d * (d - 1))
  ELSE Num(4 * d * (d - 1))

\* the 'Alternative' branch: Manhattan distance 3 over at least two axes
KnightAlternative_NoTripleOnTwoBoard(d, l) ==
  IF l < 3 THEN Num(0)
  ELSE IF l < 5
    THEN Add(Mul(combinatorial(d, 2), Num(2)), combinatorial(d, 3))
  ELSE Add(Mul(combinatorial(d, 2), Num(8)),
           IF d >= 3 THEN Mul(combinatorial(d, 3), Num(8)) ELSE Num(0))

\* the 'Alternative' branch without its case for side lengths of 5 and more
KnightAlternative_NoLargeBoardCase(d, l) ==
  IF l < 2 THEN Num(0)
  ELSE IF l = 2
    THEN (IF d < 3 THEN Num(0) ELSE combinatorial(d, 3))
  ELSE Add(Mul(combinatorial(d, 2), Num(2)), combinatorial(d, 3))

KnightAlternative(d, l) ==
  IF l < 2 THEN Num(0)
  ELSE IF l = 2
    THEN (IF d < 3 THEN Num(0) ELSE combinatorial(d, 3))
  ELSE IF l < 5
    THEN LET movesCase2 == Mul(combinatorial(d, 2), Num(2))
             movesCase3 == combinatorial(d, 3)
         IN  Add(movesCase2, movesCase3)
  ELSE LET movesCase2 == Mul(combinatorial(d, 2), Num(8))
           movesCase3 == IF d >= 3
                           THEN Mul(combinatorial(d, 3), Num(8))
                           ELSE Num(0)
       IN  Add(movesCase2, movesCase3)

calculateKnightAttacks(d, mode, l) ==
  IF d < 2 \/ l < 2 THEN Num(0)
  ELSE IF mode = "Standard" THEN KnightStandard(d, l)
  ELSE KnightAlternative(d, l)

\* the rook counting its own cell on every axis
calculateRookAttacks_WholeAxis(d, l) == Num(d * l)

calculateRookAttacks(d, l) == Num(d * (l - 1))

\* the 'Classic' branch: diagonals through exactly two axes
BishopClassic_NoOddCase(d, l) ==
  IF l < 2 THEN Num(0)
  ELSE IF l = 2 THEN combinatorial(d, 2)
  ELSE Mul(combinatorial(d, 2), Num(2 * l - 3))

\* the 'Classic' branch without the even-side-length case
BishopClassic_NoEvenCase(d, l) ==
  IF l < 2 THEN Num(0)
  ELSE IF l = 2 THEN combinatorial(d, 2)
  ELSE Mul(combinatorial(d, 2), Num(2 * l - 2))

BishopClassic(d, l) ==
  IF l < 2 THEN Num(0)
  ELSE IF l = 2 THEN combinatorial(d, 2)
  ELSE LET twoDimMoves == IF l % 2 = 0 THEN 2 * l - 3 ELSE 2 * l - 2
       IN  Mul(combinatorial(d, 2), Num(twoDimMoves))

\* the 'Hyper' loop without its even-side-length correction
RECURSIVE HyperLoop_NoParity(_, _, _, _)
HyperLoop_NoParity(r, total, d, l) ==
  IF r > d THEN total
  ELSE LET ideal == Mul(Math_pow(2, r - 1), Num(l - 1))
       IN  HyperLoop_NoParity(r + 1, Add(total, Mul(combinatorial(d, r), ideal)), d, l)

\* the body of the Hyper loop, for r, r+1, ..., d, from the running total
RECURSIVE HyperLoop(_, _, _, _)
HyperLoop(r, total, d, l) ==
  IF r > d THEN total
  ELSE LET ideal == Mul(Math_pow(2, r - 1), Num(l - 1))
           moves_r == IF l % 2 = 0
                        THEN Sub(ideal, Sub(Math_pow(2, r - 1), Num(1)))
                        ELSE ideal
       IN  HyperLoop(r + 1, Add(total, Mul(combinatorial(d, r), moves_r)), d, l)

\* the 'Hyper' branch with the loop started one subset size too late
BishopHyper_FromThree(d, l) ==
  IF l < 2 THEN Num(0)
  ELSE Math_round(HyperLoop(3, Num(0), d, l))

\* the 'Hyper' branch: diagonals through any r >= 2 axes
BishopHyper(d, l) ==
  IF l < 2 THEN Num(0)
  ELSE Math_round(HyperLoop(2, Num(0), d, l))

calculateBishopAttacks(d, mode, l) ==
  IF mode = "Classic" THEN BishopClassic(d, l) ELSE BishopHyper(d, l)

\* the queen as rook + bishop + king
calculateQueenAttacks_WithKing(d, mode, l) ==
  Add(Add(calculateRookAttacks(d, l), calculateBishopAttacks(d, mode, l)),
      Sub(Math_pow(Math_min(l, 3), d), Num(1)))

\* the queen without her rook moves
calculateQueenAttacks_BishopOnly(d, mode, l) ==
  calculateBishopAttacks(d, mode, l)

calculateQueenAttacks(d, mode, l) ==
  Add(calculateRookAttacks(d, l), calculateBishopAttacks(d, mode, l))

\* the king of the side-length-8 calculator: 3^d - 1 whatever the side length
calculateKingAttacks_Unbounded(d, l) ==
  Sub(Math_pow(3, d), Num(1))

calculateKingAttacks(d, l) ==
  Sub(Math_pow(Math_min(l, 3), d), Num(1))

\* the pawn of the side-length-8 calculator: two cells per sideways axis
calculatePawnAttacks_Unbounded(d, mode, l) ==
  IF mode = "Classic"
    THEN Num((d - 1) * 2)
    ELSE Sub(Math_pow(Math_min(l, 3), d - 1), Num(1))

\* the Classic pawn of the flat board: its two diagonals in every dimension
calculatePawnAttacks_TwoDiagonals(d, mode, l) ==
  IF mode = "Classic"
    THEN Num(Math_min(l - 1, 2))
    ELSE Sub(Math_pow(Math_min(l, 3), d - 1), Num(1))

\* the Hyper pawn moving diagonally through every axis, the forward one too
calculatePawnAttacks_AllAxes(d, mode, l) ==
  IF mode = "Classic"
    THEN Num((d - 1) * Math_min(l - 1, 2))
    ELSE Sub(Math_pow(Math_min(l, 3), d), Num(1))

\* the Hyper pawn of the side-length-8 calculator: 3^(d-1) - 1 on every board
calculatePawnAttacks_HyperUnbounded(d, mode, l) ==
  IF mode = "Classic"
    THEN Num((d - 1) * Math_min(l - 1, 2))
    ELSE Sub(Math_pow(3, d - 1), Num(1))

calculatePawnAttacks(d, mode, l) ==
  IF mode = "Classic"
    THEN Num((d - 1) * Math_min(l - 1, 2))
    ELSE Sub(Math_pow(Math_min(l, 3), d - 1), Num(1))

\* ------------------------------- the formula descriptions (getFormula)
\* the expression that calculateQueenAttacks.getFormula describes, evaluated:
\* Classic "d(l-1) + \binom{d}{2}(2l-3)", Hyper "d(l-1) + Bishop_Hyper(d, l)"
calculateQueenAttacks_getFormula(d, mode, l) ==
  IF mode = "Classic"
    THEN Add(Num(d * (l - 1)), Mul(combinatorial(d, 2), Num(2 * l - 3)))
    ELSE Add(Num(d * (l - 1)), BishopHyper(d, l))

\* --------------- the earlier calculators (src/utils/calculator.js), whose
\* formulas are those of the board of side length DEFAULT_SIDE_LENGTH
Earlier_combinatorial(n, k) ==
  Div(Num(factorial(n)), Num(factorial(k) * factorial(n - k)))

\* the earlier knight without its moves through three axes
Earlier_calculateKnightAttacks_NoTriples(d, mode, l) ==
  IF mode = "Standard" THEN Num(4 * d * (d - 1))
  ELSE Mul(Div(Num(d * (d - 1)), Num(2)), Num(8))

Earlier_calculateKnightAttacks(d, mode, l) ==
  IF mode = "Standard" THEN Num(4 * d * (d - 1))
  ELSE LET movesCase2 == Mul(Div(Num(d * (d - 1)), Num(2)), Num(8))
           movesCase3 == IF d >= 3
                           THEN Mul(Div(Num(d * (d - 1) * (d - 2)), Num(6)), Num(8))
                           ELSE Num(0)
       IN  Add(movesCase2, movesCase3)

\* the loop of the earlier Hyper bishop, for r, r+1, ..., d
RECURSIVE Earlier_HyperLoop(_, _, _)
Earlier_HyperLoop(r, total, d) ==
  IF r > d THEN total
  ELSE Earlier_HyperLoop(r + 1,
         Add(total, Mul(Earlier_combinatorial(d, r),
                        Add(Mul(Num(3), Math_pow(2, r)), Num(1)))), d)

Earlier_calculateBishopAttacks(d, mode, l) ==
  IF mode = "Classic"
    THEN Mul(Earlier_combinatorial(d, 2), Num(2 * l - 3))
    ELSE Earlier_HyperLoop(2, Num(0), d)

Earlier_calculateKingAttacks(d, l) == Sub(Math_pow(3, d), Num(1))

Earlier_calculatePawnAttacks(d, mode, l) ==
  IF mode = "Classic" THEN Num(2 * d - 2)
  ELSE Sub(Math_pow(3, d - 1), Num(1))

\* ---------------------------------------------- exact factorials
\* n! beyond the model checker's integers: a number as its base-10000 digits,
\* least significant first, without leading zeros
RECURSIVE MulDigits(_, _, _)
MulDigits(ds, m, carry) ==
  IF ds = <<>>
    THEN (IF carry = 0 THEN <<>>
          ELSE <<carry % 10000>> \o MulDigits(<<>>, m, carry \div 10000))
    ELSE LET p == Head(ds) * m + carry
         IN  <<p % 10000>> \o MulDigits(Tail(ds), m, p \div 10000)

\* factorial, as the code computes it: n * factorial(n - 1) down to n <= 1
RECURSIVE factorialDigits(_)
factorialDigits(n) ==
  IF n <= 1 THEN <<1>> ELSE MulDigits(factorialDigits(n - 1), n, 0)

\* ------------------------------------------------------- the piece registry
CHESS_PIECES == {"Pawn", "Knight", "Rook", "Bishop", "Queen", "King"}

DefaultSideLength == 8

\* what a plain object inherits from Object.prototype: every one of these
\* properties is a function or an object, hence truthy
ObjectPrototypeProperties ==
  {"constructor", "toString", "toLocaleString", "valueOf", "hasOwnProperty",
   "isPrototypeOf", "propertyIsEnumerable", "__proto__", "__defineGetter__",
   "__defineSetter__", "__lookupGetter__", "__lookupSetter__"}

\* pieces[name]: an own property, else an inherited one, else undefined
Lookup(pieces, name) ==
  IF name \in DOMAIN pieces THEN pieces[name]
  ELSE IF name \in ObjectPrototypeProperties THEN <<"inherited", name>>
  ELSE <<"undefined">>

\* x || null
OrNull(x) == IF x = <<"undefined">> THEN <<"null">> ELSE x

\* getPieceInfo called with its first passed arguments (the name and then
\* diagonalMode, knightMode, sideLength in this order); an argument that is
\* not passed takes its default.  A piece's entry is its calculate closure:
\* the name and the configuration the closure is bound to.
getPieceInfo_DefaultsClassic(name, dm, km, l, passed) ==
  LET diagonalMode_ == IF passed >= 2 THEN dm ELSE "Classic"
      knightMode_ == IF passed >= 3 THEN km ELSE "Standard"
      sideLength_ == IF passed >= 4 THEN l ELSE DefaultSideLength
      pieces == [piece \in CHESS_PIECES |->
                   <<"piece", piece, diagonalMode_, knightMode_, sideLength_>>]
  IN  OrNull(Lookup(pieces, name))

getPieceInfo(name, dm, km, l, passed) ==
  LET diagonalMode_ == IF passed >= 2 THEN dm ELSE "Hyper"
      knightMode_ == IF passed >= 3 THEN km ELSE "Alternative"
      sideLength_ == IF passed >= 4 THEN l ELSE DefaultSideLength
      pieces == [piece \in CHESS_PIECES |->
                   <<"piece", piece, diagonalMode_, knightMode_, sideLength_>>]
  IN  OrNull(Lookup(pieces, name))

\* a calculate that reads the configuration of the latest getPieceInfo call,
\* as the calculators that read module-level settings did
calculate_AmbientConfiguration(entry, d) ==
  LET piece == entry[2]
  IN  CASE piece = "Pawn" -> calculatePawnAttacks(d, diagonalMode, sideLength)
        [] piece = "Knight" -> calculateKnightAttacks(d, knightMode, sideLength)
        [] piece = "Rook" -> calculateRookAttacks(d, sideLength)
        [] piece = "Bishop" -> calculateBishopAttacks(d, diagonalMode, sideLength)
        [] piece = "Queen" -> calculateQueenAttacks(d, diagonalMode, sideLength)
        [] piece = "King" -> calculateKingAttacks(d, sideLength)

\* the calculate closure of an entry, applied to a dimension
calculate(entry, d) ==
  LET piece == entry[2]
      diagonalMode_ == entry[3]
      knightMode_ == entry[4]
      sideLength_ == entry[5]
  IN  CASE piece = "Pawn" -> calculatePawnAttacks(d, diagonalMode_, sideLength_)
        [] piece = "Knight" -> calculateKnightAttacks(d, knightMode_, sideLength_)
        [] piece = "Rook" -> calculateRookAttacks(d, sideLength_)
        [] piece = "Bishop" -> calculateBishopAttacks(d, diagonalMode_, sideLength_)
        [] piece = "Queen" -> calculateQueenAttacks(d, diagonalMode_, sideLength_)
        [] piece = "King" -> calculateKingAttacks(d, sideLength_)

\* ------------------------------------------------- the settings panel
\* (the AttackTable component and the App that holds its settings)
DIMENSIONS == {1, 2, 3, 4, 5, 6, 7, 10, 20, 50}

MIN_SIDE_LENGTH == 1

\* useState of App: the settings before any event
InitialSettings ==
  [diagonalMode |-> "Hyper", knightMode |-> "Alternative",
   sideLength |-> Num(DefaultSideLength)]

\* a text is the sequence of its characters
Digits == {"0", "1", "2", "3", "4", "5", "6", "7", "8", "9"}

DigitValue(c) ==
  CASE c = "0" -> 0 [] c = "1" -> 1 [] c = "2" -> 2 [] c = "3" -> 3
    [] c = "4" -> 4 [] c = "5" -> 5 [] c = "6" -> 6 [] c = "7" -> 7
    [] c = "8" -> 8 [] c = "9" -> 9

WhiteSpace == {" "}

RECURSIVE TrimStart(_)
TrimStart(text) ==
  IF text # <<>> /\ Head(text) \in WhiteSpace THEN TrimStart(Tail(text)) ELSE text

\* the longest prefix of decimal digits
RECURSIVE DigitPrefix(_)
DigitPrefix(text) ==
  IF text # <<>> /\ Head(text) \in Digits
    THEN <<Head(text)>> \o DigitPrefix(Tail(text))
    ELSE <<>>

\* the integer that a sequence of digits writes, after the value so far
RECURSIVE DecimalValue(_, _)
DecimalValue(ds, sofar) ==
  IF ds = <<>> THEN sofar
  ELSE DecimalValue(Tail(ds), 10 * sofar + DigitValue(Head(ds)))

\* parseInt(text, 10): leading white space is skipped, then an optional
\* sign, then the longest run of digits; NaN when there is no digit, and
\* whatever follows the digits is ignored
parseInt(text) ==
  LET S == TrimStart(text)
      sign == IF S # <<>> /\ Head(S) = "-" THEN -1 ELSE 1
      R == IF S # <<>> /\ Head(S) \in {"+", "-"} THEN Tail(S) ELSE S
      Z == DigitPrefix(R)
  IN  IF Z = <<>> THEN <<0, 0>> ELSE Num(sign * DecimalValue(Z, 0))

\* x || y: y when x is falsy (NaN or 0)
OrElse(x, y) == IF x = <<0, 0>> \/ x[1] = 0 THEN y ELSE x

\* Math.max of two JavaScript numbers
Math_max(a, b) ==
  IF a = <<0, 0>> \/ b = <<0, 0>> THEN <<0, 0>>
  ELSE IF a[1] * b[2] < b[1] * a[2] THEN b ELSE a

\* the board size taken from the text without the lower limit
newSideLength_NoMinimum(text) ==
  OrElse(parseInt(text), Num(MIN_SIDE_LENGTH))

\* newSideLength of handleSideLengthChange
newSideLength(text) ==
  Math_max(Num(MIN_SIDE_LENGTH), OrElse(parseInt(text), Num(MIN_SIDE_LENGTH)))

\* ------------------------------------------------------- the state machine
\* names a caller may pass: the six pieces, misspelt or unknown names, and
\* names of properties every object has
PieceNames ==
  CHESS_PIECES \cup {"", "knight", "Wizard", "constructor", "toString", "__proto__"}

\* the callers that hold an entry of the registry at the same time
Callers == {"first", "second"}

\* the characters of the texts typed into the board size field
InputAlphabet == {"-", ".", "0", "2", "x"}

InputTexts == UNION {[1..len -> InputAlphabet] : len \in 0..MaxTextLen}

\* the dimensions of the table whose factorials the model's integers hold
TableDimensions == {d \in DIMENSIONS : d <= MaxDim}

TypeOK ==
  /\ dimension \in 0..MaxDim
  /\ sideLength \in 1..MaxLen
  /\ diagonalMode \in DiagonalModes
  /\ knightMode \in KnightModes
  /\ called \in CHESS_PIECES \cup
                  {"none", "getPieceInfo", "calculate", "combinatorial", "factorial"}
  /\ pieceName \in PieceNames
  /\ nargs \in 1..4

\* no call made yet: nothing looked up, nothing returned
Idle ==
  /\ called = "none"
  /\ result = Num(0)
  /\ pieceName = ""
  /\ nargs = 4
  /\ info = <<"none">>
  /\ argN = 0
  /\ argK = 0
  /\ digits = <<0>>
  /\ held = [caller \in Callers |-> <<"none">>]
  /\ settings = InitialSettings
  /\ inputText = <<>>
  /\ attackCounts = <<>>

Init ==
  /\ dimension \in 0..MaxDim
  /\ sideLength \in 1..MaxLen
  /\ diagonalMode \in DiagonalModes
  /\ knightMode \in KnightModes
  /\ Idle

Return(name, value) ==
  /\ called = "none"
  /\ info = <<"none">>
  /\ called' = name
  /\ result' = value
  /\ UNCHANGED <<dimension, diagonalMode, knightMode, sideLength,
                 pieceName, nargs, info, argN, argK, digits,
                 held, settings, inputText, attackCounts>>

CallKnight == Return("Knight", calculateKnightAttacks(dimension, knightMode, sideLength))

CallRook == Return("Rook", calculateRookAttacks(dimension, sideLength))

CallBishop == Return("Bishop", calculateBishopAttacks(dimension, diagonalMode, sideLength))

CallQueen == Return("Queen", calculateQueenAttacks(dimension, diagonalMode, sideLength))

CallKing == Return("King", calculateKingAttacks(dimension, sideLength))

CallPawn == Return("Pawn", calculatePawnAttacks(dimension, diagonalMode, sideLength))

\* getPieceInfo(name, ...) with the first `passed` arguments given
CallGetPieceInfo ==
  /\ called = "none"
  /\ info = <<"none">>
  /\ \E name \in PieceNames, passed \in 1..4 :
       /\ pieceName' = name
       /\ nargs' = passed
       /\ info' = getPieceInfo(name, diagonalMode, knightMode, sideLength, passed)
  /\ called' = "getPieceInfo"
  /\ UNCHANGED <<dimension, diagonalMode, knightMode, sideLength, result,
                 argN, argK, digits, held, settings, inputText, attackCounts>>

\* pieceInfo.calculate(d) on an entry that getPieceInfo returned
CallCalculate ==
  /\ called = "getPieceInfo"
  /\ info[1] = "piece"
  /\ called' = "calculate"
  /\ result' = calculate(info, dimension)
  /\ UNCHANGED <<dimension, diagonalMode, knightMode, sideLength,
                 pieceName, nargs, info, argN, argK, digits,
                 held, settings, inputText, attackCounts>>

\* combinatorial(n, k); n - k is capped so that its factorial stays within
\* the model checker's integers
CallCombinatorial ==
  /\ called = "none"
  /\ info = <<"none">>
  /\ \E n \in 0..MaxDim, k \in (-MaxNegK)..MaxDim :
       /\ n - k <= MaxDim + 1
       /\ argN' = n
       /\ argK' = k
       /\ result' = combinatorial(n, k)
  /\ called' = "combinatorial"
  /\ UNCHANGED <<dimension, diagonalMode, knightMode, sideLength,
                 pieceName, nargs, info, digits,
                 held, settings, inputText, attackCounts>>

\* factorial(n), the value kept digit by digit
CallFactorial ==
  /\ called = "none"
  /\ info = <<"none">>
  /\ \E n \in 0..MaxFactorial :
       /\ argN' = n
       /\ digits' = factorialDigits(n)
  /\ called' = "factorial"
  /\ UNCHANGED <<dimension, diagonalMode, knightMode, sideLength, result,
                 pieceName, nargs, info, argK,
                 held, settings, inputText, attackCounts>>

Next ==
  \/ CallKnight
  \/ CallRook
  \/ CallBishop
  \/ CallQueen
  \/ CallKing
  \/ CallPawn
  \/ CallGetPieceInfo
  \/ CallCalculate
  \/ CallCombinatorial
  \/ CallFactorial

Spec == Init /\ [][Next]_vars

\* the same calculators on boards small enough to enumerate cell by cell
InitBoard ==
  /\ dimension \in 1..BoardMaxDim
  /\ sideLength \in 1..BoardMaxLen
  /\ diagonalMode \in DiagonalModes
  /\ knightMode \in KnightModes
  /\ Idle

SpecBoard == InitBoard /\ [][Next]_vars

\* the same calculators on the degenerate side lengths 0 and 1
InitDegenerate ==
  /\ dimension \in 0..MaxDim
  /\ sideLength \in 0..1
  /\ diagonalMode \in DiagonalModes
  /\ knightMode \in KnightModes
  /\ Idle

SpecDegenerate == InitDegenerate /\ [][Next]_vars

\* ------------------------------------- calls under several configurations
\* Two callers each look an entry up and then call its calculate, in any
\* order and any number of times, each getPieceInfo call with a
\* configuration of its own.  diagonalMode,
\* knightMode and sideLength are the arguments of the latest getPieceInfo
\* call; called, pieceName, info, dimension and result describe the latest
\* call and what it returned.
InitCalls ==
  /\ dimension = 0
  /\ sideLength = DefaultSideLength
  /\ diagonalMode = "Hyper"
  /\ knightMode = "Alternative"
  /\ Idle

\* pieceInfo = getPieceInfo(name, dm, km, l), kept by the caller
GetPieceInfoFor(caller) ==
  /\ held[caller] = <<"none">>
  /\ \E name \in CHESS_PIECES, dm \in DiagonalModes, km \in KnightModes,
        l \in 1..MaxCallLen :
       /\ pieceName' = name
       /\ diagonalMode' = dm
       /\ knightMode' = km
       /\ sideLength' = l
       /\ info' = getPieceInfo(name, dm, km, l, 4)
       /\ held' = [held EXCEPT ![caller] = getPieceInfo(name, dm, km, l, 4)]
  /\ called' = "getPieceInfo"
  /\ nargs' = 4
  /\ dimension' = 0
  /\ result' = Num(0)
  /\ UNCHANGED <<argN, argK, digits, settings, inputText, attackCounts>>

\* pieceInfo.calculate(d) on the entry the caller keeps
CalculateHeld(caller) ==
  /\ held[caller][1] = "piece"
  /\ \E d \in 0..MaxCallDim :
       /\ dimension' = d
       /\ result' = calculate(held[caller], d)
  /\ info' = held[caller]
  /\ pieceName' = held[caller][2]
  /\ called' = "calculate"
  /\ UNCHANGED <<diagonalMode, knightMode, sideLength, nargs, argN, argK,
                 digits, held, settings, inputText, attackCounts>>

NextCalls ==
  \/ \E caller \in Callers : GetPieceInfoFor(caller)
  \/ \E caller \in Callers : CalculateHeld(caller)

SpecCalls == InitCalls /\ [][NextCalls]_vars

\* ------------------------------------------- the settings panel at work
\* settings is the state of App, which AttackTable receives as its props at
\* every render; diagonalMode, knightMode and sideLength are the arguments
\* that the effect of AttackTable last passed to getPieceInfo, inputText the
\* text of the latest board size event, attackCounts the table computed.
InitApp ==
  /\ dimension = 0
  /\ sideLength = DefaultSideLength
  /\ diagonalMode = "Hyper"
  /\ knightMode = "Alternative"
  /\ Idle

\* the effect has to run: after mounting, and after a render that changed
\* one of its dependencies [diagonalMode, knightMode, sideLength]
EffectPending ==
  \/ attackCounts = <<>>
  \/ <<diagonalMode, knightMode, Num(sideLength)>>
       # <<settings.diagonalMode, settings.knightMode, settings.sideLength>>

\* setSettings({...settings, ...newSettings})
handleSettingsChange(newSettings) ==
  settings' = [key \in DOMAIN settings \cup DOMAIN newSettings |->
                 IF key \in DOMAIN newSettings THEN newSettings[key]
                 ELSE settings[key]]

\* an option of the diagonal mode select is chosen
handleDiagonalModeChange ==
  /\ ~EffectPending
  /\ \E value \in DiagonalModes :
       handleSettingsChange([diagonalMode |-> value,
                             knightMode |-> settings.knightMode,
                             sideLength |-> settings.sideLength])
  /\ called' = "handleDiagonalModeChange"
  /\ UNCHANGED <<dimension, diagonalMode, knightMode, sideLength, result,
                 pieceName, nargs, info, argN, argK, digits, held,
                 inputText, attackCounts>>

\* an option of the knight mode select is chosen
handleKnightModeChange ==
  /\ ~EffectPending
  /\ \E value \in KnightModes :
       handleSettingsChange([diagonalMode |-> settings.diagonalMode,
                             knightMode |-> value,
                             sideLength |-> settings.sideLength])
  /\ called' = "handleKnightModeChange"
  /\ UNCHANGED <<dimension, diagonalMode, knightMode, sideLength, result,
                 pieceName, nargs, info, argN, argK, digits, held,
                 inputText, attackCounts>>

\* the board size field changes to a text
handleSideLengthChange ==
  /\ ~EffectPending
  /\ \E text \in InputTexts :
       /\ inputText' = text
       /\ handleSettingsChange([diagonalMode |-> settings.diagonalMode,
                                knightMode |-> settings.knightMode,
                                sideLength |-> newSideLength(text)])
  /\ called' = "handleSideLengthChange"
  /\ UNCHANGED <<dimension, diagonalMode, knightMode, sideLength, result,
                 pieceName, nargs, info, argN, argK, digits, held,
                 attackCounts>>

\* the effect of AttackTable: every piece's entry under the rendered
\* settings, and its count in every dimension of the table
useEffect ==
  /\ EffectPending
  /\ diagonalMode' = settings.diagonalMode
  /\ knightMode' = settings.knightMode
  /\ sideLength' = settings.sideLength[1]
  /\ attackCounts' =
       [piece \in CHESS_PIECES |->
          LET pieceInfo == getPieceInfo(piece, settings.diagonalMode,
                                        settings.knightMode,
                                        settings.sideLength[1], 4)
          IN  [d \in TableDimensions |-> calculate(pieceInfo, d)]]
  /\ called' = "useEffect"
  /\ UNCHANGED <<dimension, result, pieceName, nargs, info, argN, argK,
                 digits, held, settings, inputText>>

NextApp ==
  \/ handleDiagonalModeChange
  \/ handleKnightModeChange
  \/ handleSideLengthChange
  \/ useEffect

SpecApp == InitApp /\ [][NextApp]_vars

\* ------------------------------------------------------------ the claims
\* The expected values are written with the integers' own arithmetic and
\* Pascal's rule, independently of factorial, combinatorial and Math_pow.
RECURSIVE Choose(_, _)
Choose(n, k) ==
  IF k < 0 \/ k > n THEN 0
  ELSE IF k = 0 \/ k = n THEN 1
  ELSE Choose(n - 1, k - 1) + Choose(n - 1, k)

Min(a, b) == IF a <= b THEN a ELSE b

Returned(name) == called = name

\* a JavaScript number that is an integer
IsInteger(x) == x[2] = 1

\* -- the board, cell by cell
\* the cells of the l^d board
Cells(d, l) == [1..d -> 0..(l - 1)]

NonZeroAxes(v, d) == {i \in 1..d : v[i] # 0}

\* displacements of +-2 along one axis and +-1 along a different axis
KnightStandardMoves(d) ==
  {v \in [1..d -> -2..2] :
     /\ Cardinality({i \in 1..d : Abs(v[i]) = 2}) = 1
     /\ Cardinality({i \in 1..d : Abs(v[i]) = 1}) = 1}

RECURSIVE SumAbs(_, _)
SumAbs(v, i) == IF i = 0 THEN 0 ELSE Abs(v[i]) + SumAbs(v, i - 1)

\* displacements whose absolute coordinate changes sum to 3 over at least
\* two axes (so that no single change exceeds 2)
KnightAlternativeMoves(d) ==
  {v \in [1..d -> -2..2] :
     SumAbs(v, d) = 3 /\ Cardinality(NonZeroAxes(v, d)) >= 2}

\* k >= 1 equal steps of +-1 along exactly two axes (Classic) or along any
\* r >= 2 axes (Hyper); on the empty board every such cell is reachable
BishopMoves(mode, d, l) ==
  LET Directions ==
        {s \in [1..d -> -1..1] :
           IF mode = "Classic" THEN Cardinality(NonZeroAxes(s, d)) = 2
           ELSE Cardinality(NonZeroAxes(s, d)) >= 2}
  IN  {[i \in 1..d |-> k * s[i]] : s \in Directions, k \in 1..(l - 1)}

\* the distinct on-board cells at one of the displacements from cell c
AttackedCells(c, Moves, d, l) ==
  {t \in {[i \in 1..d |-> c[i] + v[i]] : v \in Moves} :
     \A i \in 1..d : t[i] \in 0..(l - 1)}

\* the maximum over every cell of the number of attacked cells
MaxAttacked(Moves, d, l) ==
  LET Counts == {Cardinality(AttackedCells(c, Moves, d, l)) : c \in Cells(d, l)}
  IN  CHOOSE m \in Counts : \A n \in Counts : n <= m

\* C1: for every d >= 1 and l >= 1, calculateKnightAttacks(d, 'Standard', l)
\* is the maximum over every cell of the l^d board of the number of on-board
\* cells at a displacement of +-2 along one axis and +-1 along another.
C1_KnightStandardIsBoardMaximum ==
  (Returned("Knight") /\ knightMode = "Standard") =>
    result = Num(MaxAttacked(KnightStandardMoves(dimension), dimension, sideLength))

\* C2: for every d >= 1 and l >= 1, calculateKnightAttacks(d, 'Alternative', l)
\* is the maximum over every cell of the l^d board of the number of on-board
\* cells whose displacement has absolute coordinate changes summing to 3 over
\* at least two axes.
C2_KnightAlternativeIsBoardMaximum ==
  (Returned("Knight") /\ knightMode = "Alternative") =>
    result = Num(MaxAttacked(KnightAlternativeMoves(dimension), dimension, sideLength))

\* C3: for every d >= 1, l >= 1 and diagonal mode, calculateBishopAttacks is
\* the maximum over every cell of the empty l^d board of the number of
\* on-board cells reachable by k >= 1 equal steps of +-1 along exactly two
\* axes (Classic) or along any r >= 2 axes (Hyper).
C3_BishopIsBoardMaximum ==
  Returned("Bishop") =>
    result = Num(MaxAttacked(BishopMoves(diagonalMode, dimension, sideLength),
                             dimension, sideLength))

\* an even side length where the two modes differ: 3*5 + 9 = 24 cells
C3_Witness ==
  /\ Returned("Bishop") /\ diagonalMode = "Hyper"
  /\ dimension = 3 /\ sideLength = 4 /\ result = Num(24)
  /\ Cardinality(AttackedCells([i \in 1..3 |-> 1], BishopMoves("Hyper", 3, 4), 3, 4)) = 24

\* C4: for every d >= 0 and l >= 1, calculateKnightAttacks(d, 'Standard', l)
\* is 0 when l < 3, d(d-1) when 3 <= l < 5 and 4d(d-1) when l >= 5.
C4_KnightStandardFormula ==
  (Returned("Knight") /\ knightMode = "Standard") =>
    result = Num(IF sideLength < 3 THEN 0
                 ELSE IF sideLength < 5 THEN dimension * (dimension - 1)
                 ELSE 4 * dimension * (dimension - 1))

\* knightAttacks(3, 'Standard', 4) = 6
C4_Witness ==
  /\ Returned("Knight") /\ knightMode = "Standard"
  /\ dimension = 3 /\ sideLength = 4 /\ result = Num(6)

\* C5: for every d >= 0 and l >= 1, calculateKnightAttacks(d, 'Alternative', l)
\* is 0 when l < 2; when l = 2, 0 if d < 3 and C(d,3) otherwise;
\* 2 C(d,2) + C(d,3) when 3 <= l < 5; 8 (C(d,2) + C(d,3)) when l >= 5.
C5_KnightAlternativeFormula ==
  (Returned("Knight") /\ knightMode = "Alternative") =>
    result = Num(IF sideLength < 2 THEN 0
                 ELSE IF sideLength = 2
                   THEN (IF dimension < 3 THEN 0 ELSE Choose(dimension, 3))
                 ELSE IF sideLength < 5
                   THEN 2 * Choose(dimension, 2) + Choose(dimension, 3)
                 ELSE 8 * (Choose(dimension, 2) + Choose(dimension, 3)))

\* knightAttacks(3, 'Alternative', 2) = 1
C5_Witness ==
  /\ Returned("Knight") /\ knightMode = "Alternative"
  /\ dimension = 3 /\ sideLength = 2 /\ result = Num(1)

HyperTerm(r, l) ==
  IF l % 2 = 0 THEN 2^(r - 1) * (l - 1) - (2^(r - 1) - 1)
  ELSE 2^(r - 1) * (l - 1)

\* the sum over r = 2..d of C(d,r) m(r,l), taken from r = d downwards
RECURSIVE HyperSum(_, _, _)
HyperSum(r, d, l) ==
  IF r < 2 THEN 0 ELSE Choose(d, r) * HyperTerm(r, l) + HyperSum(r - 1, d, l)

\* C7: for every d >= 0 and l >= 1, calculateBishopAttacks(d, 'Hyper', l) is 0
\* when l < 2 and otherwise the sum over r = 2..d of C(d,r) m(r,l), the empty
\* sum 0 when d < 2.
C7_BishopHyperFormula ==
  (Returned("Bishop") /\ diagonalMode = "Hyper") =>
    result = Num(IF sideLength < 2 THEN 0
                 ELSE HyperSum(dimension, dimension, sideLength))

\* an even side length with three subset sizes: 6*13 + 4*25 + 1*49 = 227
C7_Witness ==
  /\ Returned("Bishop") /\ diagonalMode = "Hyper"
  /\ dimension = 4 /\ sideLength = 8 /\ result = Num(227)

\* C8: for every d >= 0, l >= 1 and diagonal mode, calculateQueenAttacks is
\* calculateRookAttacks + calculateBishopAttacks, with no king contribution.
C8_QueenIsRookPlusBishop ==
  Returned("Queen") =>
    LET rook == calculateRookAttacks(dimension, sideLength)
        bishop == calculateBishopAttacks(dimension, diagonalMode, sideLength)
    IN  /\ IsInteger(rook) /\ IsInteger(bishop)
        /\ result = Num(rook[1] + bishop[1])

\* the queen of the 8x8 board, 14 + 13, where the king would add 8
C8_Witness ==
  /\ Returned("Queen") /\ dimension = 2 /\ sideLength = 8
  /\ result = Num(27)
  /\ calculateKingAttacks(dimension, sideLength) = Num(8)

\* C9: for every d >= 0 and l >= 1, calculateKingAttacks(d, l) is
\* min(l,3)^d - 1, which is 0 when d = 0 or l = 1.
C9_KingFormula ==
  Returned("King") =>
    /\ result = Num(Min(sideLength, 3)^dimension - 1)
    /\ (dimension = 0 \/ sideLength = 1) => result = Num(0)

\* kingAttacks(4, 2) = 15
C9_Witness ==
  /\ Returned("King") /\ dimension = 4 /\ sideLength = 2 /\ result = Num(15)

\* C10: for every d >= 1 and l >= 1, calculatePawnAttacks(d, 'Classic', l) is
\* (d-1) min(l-1, 2) and calculatePawnAttacks(d, 'Hyper', l) is
\* min(l,3)^(d-1) - 1.
C10_PawnFormula ==
  (Returned("Pawn") /\ dimension >= 1) =>
    result = Num(IF diagonalMode = "Classic"
                   THEN (dimension - 1) * Min(sideLength - 1, 2)
                   ELSE Min(sideLength, 3)^(dimension - 1) - 1)

\* pawnAttacks(3, 'Hyper', 8) = 8
C10_Witness ==
  /\ Returned("Pawn") /\ diagonalMode = "Hyper"
  /\ dimension = 3 /\ sideLength = 8 /\ result = Num(8)

\* -- claims about every piece, the registry and the combinatorics kernel
\* the comparison a < b of two finite JavaScript numbers
LessThan(a, b) == a[1] * b[2] < b[1] * a[2]

\* the calculator of a piece applied directly to a configuration
Direct(piece, d, dm, km, l) == calculate(<<"piece", piece, dm, km, l>>, d)

\* C11: for every d >= 0 and l >= 1, calculateRookAttacks(d, l) is d (l-1),
\* which is 0 whenever d = 0 or l = 1.
C11_RookFormula ==
  Returned("Rook") =>
    /\ result = Num(dimension * (sideLength - 1))
    /\ (dimension = 0 \/ sideLength = 1) => result = Num(0)

\* rookAttacks(3, 1) = 0
C11_Witness ==
  /\ Returned("Rook") /\ dimension = 3 /\ sideLength = 1 /\ result = Num(0)

\* C12: for each of the six pieces, every d in 0..10, every l in 1..12 and
\* both settings of each mode, the calculator returns a value >= 0.
C12_NonNegative ==
  (called \in CHESS_PIECES \cup {"calculate"}) =>
    (result # <<0, 0>> /\ result[1] >= 0)

\* C13: for the degenerate side lengths 0 and 1, every d >= 0, every piece
\* and every mode, the calculator returns a non-negative integer.
C13_DegenerateNonNegativeInteger ==
  (called \in CHESS_PIECES) => (IsInteger(result) /\ result[1] >= 0)

\* C14: at d = 2 and l = 8, for each combination of the modes, the
\* calculators obtained from getPieceInfo return Knight 8, Rook 14, Bishop 13,
\* Queen 27, King 8, Pawn 2.
C14_Known2DValues ==
  (called = "calculate" /\ dimension = 2 /\ info[5] = 8) =>
    result = Num(CASE pieceName = "Knight" -> 8
                   [] pieceName = "Rook" -> 14
                   [] pieceName = "Bishop" -> 13
                   [] pieceName = "Queen" -> 27
                   [] pieceName = "King" -> 8
                   [] pieceName = "Pawn" -> 2)

\* the bishop of the 8x8 board under Classic diagonals and Standard knights
C14_Witness ==
  /\ called = "calculate" /\ dimension = 2 /\ nargs = 4
  /\ info = <<"piece", "Bishop", "Classic", "Standard", 8>>
  /\ result = Num(13)

\* C15: at side length 8, for each piece, each mode setting and every d in
\* 2..9, the count at dimension d+1 is strictly greater than the count at d.
C15_IncreasingInDimension ==
  (called \in CHESS_PIECES /\ sideLength = 8 /\ dimension \in 2..9) =>
    LessThan(result, Direct(called, dimension + 1, diagonalMode, knightMode, 8))

\* the Classic pawn: 16 at d = 9, 18 at d = 10
C15_Witness ==
  /\ Returned("Pawn") /\ diagonalMode = "Classic" /\ sideLength = 8
  /\ dimension = 9 /\ result = Num(16)
  /\ calculatePawnAttacks(10, "Classic", 8) = Num(18)

\* C16: for every d >= 0, l >= 1 and diagonal mode, the queen's count is at
\* least the bishop's and at least the rook's.
C16_QueenAtLeastBishopAndRook ==
  Returned("Queen") =>
    /\ ~LessThan(result, calculateBishopAttacks(dimension, diagonalMode, sideLength))
    /\ ~LessThan(result, calculateRookAttacks(dimension, sideLength))

\* a board where the rook and the bishop both attack something: 9 + 24
C16_Witness ==
  /\ Returned("Queen") /\ diagonalMode = "Hyper"
  /\ dimension = 3 /\ sideLength = 4 /\ result = Num(33)
  /\ calculateRookAttacks(3, 4) = Num(9)
  /\ calculateBishopAttacks(3, "Hyper", 4) = Num(24)

\* C17: for every name that is not one of the six piece names (the empty
\* string, differently-cased names, names of built-in object properties),
\* getPieceInfo returns null.
C17_UnknownNameIsNull ==
  (called = "getPieceInfo" /\ pieceName \notin CHESS_PIECES) =>
    info = <<"null">>

\* C18: for each piece name and every configuration,
\* getPieceInfo(name, diagonalMode, knightMode, l).calculate(d) is the piece's
\* own calculator applied to d, l and only its relevant mode, and omitted
\* arguments take the defaults 'Hyper', 'Alternative', 8.
C18_CalculateIsBoundCalculator ==
  called = "calculate" =>
    LET dm == IF nargs >= 2 THEN diagonalMode ELSE "Hyper"
        km == IF nargs >= 3 THEN knightMode ELSE "Alternative"
        l == IF nargs >= 4 THEN sideLength ELSE 8
    IN  result =
          CASE pieceName = "Pawn" -> calculatePawnAttacks(dimension, dm, l)
            [] pieceName = "Knight" -> calculateKnightAttacks(dimension, km, l)
            [] pieceName = "Rook" -> calculateRookAttacks(dimension, l)
            [] pieceName = "Bishop" -> calculateBishopAttacks(dimension, dm, l)
            [] pieceName = "Queen" -> calculateQueenAttacks(dimension, dm, l)
            [] pieceName = "King" -> calculateKingAttacks(dimension, l)

\* getPieceInfo('Knight') alone: the Alternative knight of side length 8,
\* 8 (C(3,2) + C(3,3)) = 32, where the Standard knight would attack 24
C18_Witness ==
  /\ called = "calculate" /\ pieceName = "Knight" /\ nargs = 1
  /\ knightMode = "Standard" /\ sideLength = 3 /\ dimension = 3
  /\ result = Num(32)

\* C19: for all integers n >= 0 and k, combinatorial(n, k) is 0 when k > n or
\* k < 0, and otherwise the number of k-element subsets of an n-element set.
C19_CombinatorialIsBinomial ==
  Returned("combinatorial") =>
    result = Num(IF argK > argN \/ argK < 0 THEN 0 ELSE Choose(argN, argK))

\* 2^53 = 9007199254740992, as base-10000 digits
TwoPow53Digits == <<992, 4074, 9925, 71, 9>>

\* a[1..i] <= b[1..i] for two numbers of the same number of digits
RECURSIVE PrefixLE(_, _, _)
PrefixLE(a, b, i) ==
  IF i = 0 THEN TRUE
  ELSE IF a[i] # b[i] THEN a[i] < b[i]
  ELSE PrefixLE(a, b, i - 1)

DigitsLE(a, b) ==
  \/ Len(a) < Len(b)
  \/ (Len(a) = Len(b) /\ PrefixLE(a, b, Len(a)))

\* C20: for every n up to a few hundred and every 0 <= k <= n, every
\* intermediate value of combinatorial(n, k), factorial(n) included, stays
\* within the exactly representable integers (magnitude at most 2^53).
C20_FactorialWithinExactIntegers ==
  Returned("factorial") => DigitsLE(digits, TwoPow53Digits)

\* -- claims relating the pieces, the modes and the side lengths
\* a >= b for two finite JavaScript numbers
AtLeast(a, b) == ~LessThan(a, b)

\* C22: at side length 8, for every d in 2..10 and every combination of the
\* modes, the queen's count is at least the count of each other piece.
C22_QueenAtLeastEveryPiece ==
  (Returned("Queen") /\ sideLength = 8 /\ dimension \in 2..10) =>
    \A piece \in CHESS_PIECES :
      AtLeast(result, Direct(piece, dimension, diagonalMode, knightMode, 8))

\* C23: at side length 8, for every d in 2..10 and every combination of the
\* modes, the bishop's count and the rook's count are each at least the
\* pawn's count and at least the knight's count.
C23_BishopAndRookAtLeastPawnAndKnight ==
  (called \in {"Bishop", "Rook"} /\ sideLength = 8 /\ dimension \in 2..10) =>
    /\ AtLeast(result, calculatePawnAttacks(dimension, diagonalMode, 8))
    /\ AtLeast(result, calculateKnightAttacks(dimension, knightMode, 8))

\* C24: in Classic mode, for every d >= 0 and l >= 1, the bishop's count is
\* C(d,2) (2l-3) and the queen's count is the value of the formula that
\* calculateQueenAttacks.getFormula('Classic') describes,
\* d(l-1) + C(d,2) (2l-3).
C24_ClassicFormulaDescribesValue ==
  /\ (Returned("Bishop") /\ diagonalMode = "Classic") =>
       result = Num(Choose(dimension, 2) * (2 * sideLength - 3))
  /\ (Returned("Queen") /\ diagonalMode = "Classic") =>
       /\ result = calculateQueenAttacks_getFormula(dimension, "Classic", sideLength)
       /\ result = Num(dimension * (sideLength - 1)
                       + Choose(dimension, 2) * (2 * sideLength - 3))

\* sum over r = 2..d of C(d,r) (3 2^r + 1)
RECURSIVE ReadmeHyperSum(_, _)
ReadmeHyperSum(r, d) ==
  IF r > d THEN 0 ELSE Choose(d, r) * (3 * 2^r + 1) + ReadmeHyperSum(r + 1, d)

\* C25: at side length 8, for every d >= 2 and each mode, the finite-board
\* calculators return the values of the earlier side-length-8 calculators and
\* of the README's formulas: knight 4d(d-1) (Standard) and 8 (C(d,2)+C(d,3))
\* (Alternative); bishop C(d,2) (2l-3) (Classic) and the sum over r = 2..d of
\* C(d,r) (3 2^r + 1) (Hyper); king 3^d - 1; pawn 2d-2 (Classic) and
\* 3^(d-1) - 1 (Hyper).
C25_AgreesWithEarlierCalculatorAtEight ==
  (sideLength = 8 /\ dimension >= 2) =>
    /\ Returned("Knight") =>
         /\ result = Earlier_calculateKnightAttacks(dimension, knightMode, 8)
         /\ result = Num(IF knightMode = "Standard"
                           THEN 4 * dimension * (dimension - 1)
                           ELSE 8 * (Choose(dimension, 2) + Choose(dimension, 3)))
    /\ Returned("Bishop") =>
         /\ result = Earlier_calculateBishopAttacks(dimension, diagonalMode, 8)
         /\ result = Num(IF diagonalMode = "Classic"
                           THEN Choose(dimension, 2) * (2 * 8 - 3)
                           ELSE ReadmeHyperSum(2, dimension))
    /\ Returned("King") =>
         /\ result = Earlier_calculateKingAttacks(dimension, 8)
         /\ result = Num(3^dimension - 1)
    /\ Returned("Pawn") =>
         /\ result = Earlier_calculatePawnAttacks(dimension, diagonalMode, 8)
         /\ result = Num(IF diagonalMode = "Classic"
                           THEN 2 * dimension - 2
                           ELSE 3^(dimension - 1) - 1)

\* the Alternative knight of five dimensions: 8 (10 + 10) = 160
C25_Witness ==
  /\ Returned("Knight") /\ knightMode = "Alternative"
  /\ sideLength = 8 /\ dimension = 5 /\ result = Num(160)
  /\ Earlier_calculateKnightAttacks(5, "Alternative", 8) = Num(160)

\* C26: for every d >= 1 and l >= 1, calculatePawnAttacks(d, 'Hyper', l) is
\* calculateKingAttacks(d-1, l): the king's count over the d-1 axes that are
\* not the forward one.
C26_HyperPawnIsKingOfOtherAxes ==
  (Returned("Pawn") /\ diagonalMode = "Hyper" /\ dimension >= 1) =>
    result = calculateKingAttacks(dimension - 1, sideLength)

\* on the board of side length 2: pawn(4) = king(3) = 2^3 - 1
C26_Witness ==
  /\ Returned("Pawn") /\ diagonalMode = "Hyper"
  /\ dimension = 4 /\ sideLength = 2 /\ result = Num(7)
  /\ calculateKingAttacks(3, 2) = Num(7)

\* the other setting of a mode
OtherMode(mode) ==
  CASE mode = "Classic" -> "Hyper"
    [] mode = "Hyper" -> "Classic"
    [] mode = "Standard" -> "Alternative"
    [] mode = "Alternative" -> "Standard"

\* C27: for every d in 0..2 and every l >= 1, the two settings of each mode
\* give the same count: the bishop under Classic and Hyper, the pawn under
\* Classic and Hyper (for d >= 1), the knight under Standard and Alternative.
C27_ModesCoincideUpToTwoDimensions ==
  (dimension \in 0..2) =>
    /\ Returned("Bishop") =>
         result = calculateBishopAttacks(dimension, OtherMode(diagonalMode), sideLength)
    /\ (Returned("Pawn") /\ dimension >= 1) =>
         result = calculatePawnAttacks(dimension, OtherMode(diagonalMode), sideLength)
    /\ Returned("Knight") =>
         result = calculateKnightAttacks(dimension, OtherMode(knightMode), sideLength)

\* the Hyper pawn of the 2x2 board attacks its one diagonal, as the Classic
C27_Witness ==
  /\ Returned("Pawn") /\ diagonalMode = "Hyper"
  /\ dimension = 2 /\ sideLength = 2 /\ result = Num(1)
  /\ calculatePawnAttacks(2, "Classic", 2) = Num(1)

\* C28: for every d >= 1 and l >= 1, the generalized mode never yields fewer
\* attacked cells than the restricted mode: bishop and pawn under Hyper
\* against Classic, knight under Alternative against Standard.
C28_GeneralizedModeAtLeastRestricted ==
  (dimension >= 1) =>
    /\ (Returned("Bishop") /\ diagonalMode = "Hyper") =>
         AtLeast(result, calculateBishopAttacks(dimension, "Classic", sideLength))
    /\ (Returned("Pawn") /\ diagonalMode = "Hyper") =>
         AtLeast(result, calculatePawnAttacks(dimension, "Classic", sideLength))
    /\ (Returned("Knight") /\ knightMode = "Alternative") =>
         AtLeast(result, calculateKnightAttacks(dimension, "Standard", sideLength))

\* three dimensions, side length 8: the Alternative knight's 32 cells against
\* the Standard knight's 24
C28_Witness ==
  /\ Returned("Knight") /\ knightMode = "Alternative"
  /\ dimension = 3 /\ sideLength = 8 /\ result = Num(32)
  /\ calculateKnightAttacks(3, "Standard", 8) = Num(24)

\* C29: for every piece, every mode and every d >= 1, the count does not
\* decrease with the side length: attacks(d, l+1) >= attacks(d, l) for every
\* l >= 1.
C29_NonDecreasingInSideLength ==
  (called \in CHESS_PIECES /\ dimension >= 1) =>
    AtLeast(Direct(called, dimension, diagonalMode, knightMode, sideLength + 1),
            result)

\* the Hyper bishop across an even and an odd side length: 24 at l = 4,
\* 40 at l = 5
C29_Witness ==
  /\ Returned("Bishop") /\ diagonalMode = "Hyper"
  /\ dimension = 3 /\ sideLength = 4 /\ result = Num(24)
  /\ calculateBishopAttacks(3, "Hyper", 5) = Num(40)

\* -- claims about calls under several configurations and about the settings
\* the value that an entry's configuration and a dimension determine
BoundValue(entry, d) ==
  CASE entry[2] = "Pawn" -> calculatePawnAttacks(d, entry[3], entry[5])
    [] entry[2] = "Knight" -> calculateKnightAttacks(d, entry[4], entry[5])
    [] entry[2] = "Rook" -> calculateRookAttacks(d, entry[5])
    [] entry[2] = "Bishop" -> calculateBishopAttacks(d, entry[3], entry[5])
    [] entry[2] = "Queen" -> calculateQueenAttacks(d, entry[3], entry[5])
    [] entry[2] = "King" -> calculateKingAttacks(d, entry[5])

\* C21: the calculators hold no state between calls: in any interleaving of
\* getPieceInfo and calculate calls under different configurations, each
\* calculate(d) returns the value that its own bound configuration and d
\* determine, and a call repeated with the same arguments returns the same
\* result.
C21_CalculateDependsOnBoundConfiguration ==
  /\ [](called = "calculate" => result = BoundValue(info, dimension))
  /\ [][(called = "calculate" /\ called' = "calculate"
         /\ info' = info /\ dimension' = dimension) => result' = result]_vars

\* the Classic bishop bound to side length 3 by the first caller, called
\* after the second caller looked up a Hyper bishop of side length 2:
\* C(3,2) (2*3 - 2) = 12, where the later configuration would give 4
C21_Witness ==
  /\ called = "calculate" /\ dimension = 3
  /\ info = <<"piece", "Bishop", "Classic", "Standard", 3>>
  /\ held["first"] = info
  /\ held["second"] = <<"piece", "Bishop", "Hyper", "Alternative", 2>>
  /\ <<diagonalMode, knightMode, sideLength>> = <<"Hyper", "Alternative", 2>>
  /\ result = Num(12)
  /\ calculateBishopAttacks(3, "Hyper", 2) = Num(4)

====
